---- MODULE Spec2Model ----
(***************************************************************************)
(* A model of the array exercises of typescript/dsa/arrays:                *)
(*   rotate / reverse   (rotate-array.ts)                                  *)
(*   moveZeroes         (move-zeroes.ts)                                   *)
(*   twoSum             (two-sum.ts)                                       *)
(*   maxSubArray        (maximum-subarray.ts)                              *)
(* and of typescript/dsa/trees:                                            *)
(*   lowestCommonAncestor / r_lca   (lca.ts)                               *)
(*                                                                         *)
(* A JavaScript array is modelled as a function from integer keys to       *)
(* values.  Keys 0..length-1 are the elements; a write to a negative key   *)
(* adds an ordinary property and a write at or past the length grows the   *)
(* array, exactly as an indexed assignment does.  A read of an absent key  *)
(* yields Undefined.  Indices are 0-based as in the source.                *)
(*                                                                         *)
(* Each function runs one source step per action (pc is the position in    *)
(* the code); a harness calls the functions with arguments drawn from      *)
(* bounded sets and records every completed call in log.                   *)
(***************************************************************************)
EXTENDS Integers, Sequences, FiniteSets, TLC

VARIABLES
    orig,           \* the array the harness was given (never mutated)
    nums,           \* the array the running function mutates in place
    pc,             \* position in the code
    k,              \* rotate: parameter k
    normalized_k,   \* rotate: const normalized_k
    n,              \* rotate: const n
    start,          \* reverse: parameter start
    end,            \* reverse: parameter end
    site,           \* reverse: the call site to return to (0: the harness)
    read,           \* moveZeroes: let read
    write,          \* moveZeroes: let write
    frame,          \* twoSum, maxSubArray, r_lca: the parameters and locals
    cur,            \* history: the call in progress
    log             \* history: the completed calls, oldest first

vars ==
    <<orig, nums, pc, k, normalized_k, n, start, end, site, read, write, frame,
      cur, log>>

-----------------------------------------------------------------------------
(* Bounds of the harness *)

MaxLen == 3         \* longest enumerated input array
MaxK == 5           \* largest rotation count tried
MaxNegK == 2        \* rotation counts down to -MaxNegK are tried
MaxCalls == 2       \* calls per run of the harness
MaxIdx == 3         \* reverse is called directly with indices in -1..MaxIdx
MaxLenMZ == 4       \* longest enumerated moveZeroes input
MaxLenTS == 3       \* longest enumerated twoSum input
MaxLenMS == 4       \* longest enumerated maxSubArray input
MaxNodes == 4       \* largest enumerated binary search tree
MaxTarget == 4      \* twoSum targets range over -MaxTarget..MaxTarget

Values == {1, 2}            \* elements of the enumerated rotate inputs
ZValues == {0, 1, 2}        \* elements of the enumerated moveZeroes inputs
TSValues == {-1, 0, 1, 2}   \* elements of the enumerated twoSum inputs
MSValues == {-2, -1, 0, 1, 3}   \* elements of the enumerated maxSubArray inputs

-----------------------------------------------------------------------------
(* JavaScript values and operators the code relies on *)

\* The value `undefined`, read from a key the array does not have.
Undefined == -1000

\* The value NaN, the result of x % 0.
NaN == -2000

\* The array literal [s[1], ..., s[Len(s)]].
Arr(s) == [i \in 0..(Len(s) - 1) |-> s[i + 1]]

Max(S) == CHOOSE x \in S : \A y \in S : y <= x

\* nums.length
Length(a) ==
    LET idx == {i \in DOMAIN a : i >= 0}
    IN  IF idx = {} THEN 0 ELSE Max(idx) + 1

\* nums[i] as an expression
Get(a, i) == IF i \in DOMAIN a THEN a[i] ELSE Undefined

\* nums[i] = v
Put(a, i, v) == [j \in (DOMAIN a) \cup {i} |-> IF j = i THEN v ELSE a[j]]

\* Mutant: the count is used as it is, not reduced modulo the length.
JsRemNoWrap(a, b) == IF b = 0 THEN NaN ELSE a

\* a % b on integers: NaN for b = 0, else the remainder with the dividend's sign
JsRem(a, b) ==
    IF b = 0 THEN NaN
    ELSE IF a >= 0 THEN a % b ELSE 0 - ((0 - a) % b)

\* a === b on numbers
StrictEq(a, b) == a # NaN /\ b # NaN /\ a = b

\* Mutant: the comparison a <= b in the place of a < b.
JsLe(a, b) == a # NaN /\ b # NaN /\ a <= b

\* a < b on numbers
JsLt(a, b) == a # NaN /\ b # NaN /\ a < b

\* a - b on numbers
JsSub(a, b) == IF a = NaN \/ b = NaN THEN NaN ELSE a - b

-----------------------------------------------------------------------------
(* The harness *)

Scenarios ==
    { Arr(<<1, 2, 3, 4, 5, 6, 7>>), Arr(<<-1, -100, 3, 99>>) }

SeqsOver(V, m) == UNION { [1..l -> V] : l \in 0..m }

\* The array [1, 2, ..., l], whose elements are all different.
Iota(l) == Arr([i \in 1..l |-> i])

\* Every array over Values up to MaxLen, the arrays of distinct elements up
\* to MaxLen, and the arrays of the documented scenarios.
RotateInputs ==
    { Arr(s) : s \in SeqsOver(Values, MaxLen) }
        \cup { Iota(l) : l \in 0..MaxLen }
        \cup Scenarios

KRange == (0 - MaxNegK)..MaxK

\* No function of the last three is running.
NoFrame == <<>>

NoCall == [fn |-> "none", args |-> <<>>, before |-> <<>>, ranges |-> <<>>, swaps |-> 0]

Done(c, a) ==
    [fn |-> c.fn, args |-> c.args, before |-> c.before, after |-> a,
     ranges |-> c.ranges, swaps |-> c.swaps]

Init ==
    /\ orig \in RotateInputs
    /\ nums = orig
    /\ pc = "idle"
    /\ k = 0 /\ normalized_k = 0 /\ n = 0
    /\ start = 0 /\ end = 0 /\ site = 0
    /\ read = 0 /\ write = 0
    /\ frame = NoFrame
    /\ cur = NoCall
    /\ log = <<>>

\* The harness calls rotate(a, kk) on the array it holds or on a fresh copy
\* of its input.
RotateCall ==
    /\ pc = "idle"
    /\ Len(log) < MaxCalls
    /\ \E a \in {nums, orig}, kk \in KRange :
        /\ nums' = a
        /\ k' = kk
        /\ cur' = [NoCall EXCEPT !.fn = "rotate", !.args = <<kk>>, !.before = a]
    /\ pc' = "rotate_3"
    /\ UNCHANGED <<orig, frame, normalized_k, n, start, end, site, read, write, log>>

IdxRange == (0 - 1)..MaxIdx

\* The harness calls reverse(a, s, e) directly, with any pair of indices.
ReverseCall ==
    /\ pc = "idle"
    /\ Len(log) < MaxCalls
    /\ \E a \in {nums, orig}, s \in IdxRange, e \in IdxRange :
        /\ nums' = a
        /\ start' = s
        /\ end' = e
        /\ cur' = [NoCall EXCEPT !.fn = "reverse", !.args = <<s, e>>, !.before = a]
    /\ site' = 0
    /\ pc' = "reverse_17"
    /\ UNCHANGED <<orig, frame, k, normalized_k, n, read, write, log>>

-----------------------------------------------------------------------------
(* rotate-array.ts *)

\* Mutant: the test without nums.length <= 1.
EarlyReturnNoLengthTest(nk, len) == StrictEq(nk, 0)

\* Mutant: the test without normalized_k === 0.
EarlyReturnNoZeroTest(nk, len) == len <= 1

\* line 5: normalized_k === 0 || nums.length <= 1
EarlyReturn(nk, len) == StrictEq(nk, 0) \/ len <= 1

\* Mutant: the exchange without temp, nums[j] reads back what was just written.
SwapNoTemp(a, i, j) == Put(Put(a, i, Get(a, j)), j, Get(a, j))

\* Mutant: temp is written one position to the right of j.
SwapNext(a, i, j) == Put(Put(a, i, Get(a, j)), j + 1, Get(a, i))

\* lines 18-20: exchange nums[i] and nums[j] through temp

Swap(a, i, j) ==
    LET temp == Get(a, i)
    IN  Put(Put(a, i, Get(a, j)), j, temp)

\* reverse(nums, s, e) is entered from call site st
CallReverse(s, e, st) ==
    /\ start' = s
    /\ end' = e
    /\ site' = st
    /\ pc' = "reverse_17"

\* the running function returns to the harness
Return ==
    /\ pc' = "idle"
    /\ log' = Append(log, Done(cur, nums))
    /\ cur' = NoCall
    /\ k' = 0 /\ normalized_k' = 0 /\ n' = 0
    /\ start' = 0 /\ end' = 0 /\ site' = 0
    /\ read' = 0 /\ write' = 0

\* lines 3-6: the no-op boundary
RotateEarlyReturn ==
    /\ pc = "rotate_3"
    /\ EarlyReturn(JsRem(k, Length(nums)), Length(nums))
    /\ Return
    /\ UNCHANGED <<orig, frame, nums>>

\* Mutant: the reversal of the whole array is left out.
RotateSkipReverseAll ==
    /\ pc = "rotate_3"
    /\ ~EarlyReturn(JsRem(k, Length(nums)), Length(nums))
    /\ normalized_k' = JsRem(k, Length(nums))
    /\ n' = Length(nums) - 1
    /\ pc' = "rotate_12"
    /\ UNCHANGED <<orig, frame, nums, k, start, end, site, read, write, cur, log>>

\* lines 3-11: normalize k, pass the boundary test, reverse the whole array
RotateReverseAll ==
    /\ pc = "rotate_3"
    /\ ~EarlyReturn(JsRem(k, Length(nums)), Length(nums))
    /\ normalized_k' = JsRem(k, Length(nums))
    /\ n' = Length(nums) - 1
    /\ CallReverse(0, Length(nums) - 1, 11)
    /\ cur' = [cur EXCEPT !.ranges = Append(@, <<0, Length(nums) - 1>>)]
    /\ UNCHANGED <<orig, frame, nums, k, read, write, log>>

\* Mutant: the prefix runs one element too far, to normalized_k.
RotateReversePrefixOffByOne ==
    /\ pc = "rotate_12"
    /\ CallReverse(0, normalized_k, 12)
    /\ cur' = [cur EXCEPT !.ranges = Append(@, <<0, normalized_k>>)]
    /\ UNCHANGED <<orig, frame, nums, k, normalized_k, n, read, write, log>>

\* line 12: reverse the first normalized_k elements
RotateReversePrefix ==
    /\ pc = "rotate_12"
    /\ CallReverse(0, JsSub(normalized_k, 1), 12)
    /\ cur' = [cur EXCEPT !.ranges = Append(@, <<0, JsSub(normalized_k, 1)>>)]
    /\ UNCHANGED <<orig, frame, nums, k, normalized_k, n, read, write, log>>

\* Mutant: the suffix starts one element late, at normalized_k + 1.
RotateReverseSuffixOffByOne ==
    /\ pc = "rotate_13"
    /\ CallReverse(normalized_k + 1, n, 13)
    /\ cur' = [cur EXCEPT !.ranges = Append(@, <<normalized_k + 1, n>>)]
    /\ UNCHANGED <<orig, frame, nums, k, normalized_k, n, read, write, log>>

\* line 13: reverse the rest
RotateReverseSuffix ==
    /\ pc = "rotate_13"
    /\ CallReverse(normalized_k, n, 13)
    /\ cur' = [cur EXCEPT !.ranges = Append(@, <<normalized_k, n>>)]
    /\ UNCHANGED <<orig, frame, nums, k, normalized_k, n, read, write, log>>

\* line 14: rotate returns
RotateReturn ==
    /\ pc = "rotate_14"
    /\ Return
    /\ UNCHANGED <<orig, frame, nums>>

\* Mutant: the loop body without start++ and end--.
ReverseSwapNoAdvance ==
    /\ pc = "reverse_17"
    /\ JsLt(start, end)
    /\ nums' = Swap(nums, start, end)
    /\ UNCHANGED <<orig, frame, pc, k, normalized_k, n, start, end, site, read, write, cur, log>>

\* Mutant: the loop body without end--.
ReverseSwapEndFixed ==
    /\ pc = "reverse_17"
    /\ JsLt(start, end)
    /\ nums' = Swap(nums, start, end)
    /\ start' = start + 1
    /\ cur' = [cur EXCEPT !.swaps = @ + 1]
    /\ UNCHANGED <<orig, frame, pc, k, normalized_k, n, end, site, read, write, log>>

\* Mutant: the loop body without start++.
ReverseSwapStartFixed ==
    /\ pc = "reverse_17"
    /\ JsLt(start, end)
    /\ nums' = Swap(nums, start, end)
    /\ end' = end - 1
    /\ cur' = [cur EXCEPT !.swaps = @ + 1]
    /\ UNCHANGED <<orig, frame, pc, k, normalized_k, n, start, site, read, write, log>>

\* lines 17-22: one iteration of the loop of reverse
ReverseSwap ==
    /\ pc = "reverse_17"
    /\ JsLt(start, end)
    /\ nums' = Swap(nums, start, end)
    /\ start' = start + 1
    /\ end' = end - 1
    /\ cur' = [cur EXCEPT !.swaps = @ + 1]
    /\ UNCHANGED <<orig, frame, pc, k, normalized_k, n, site, read, write, log>>

\* lines 17, 24: the loop test fails and reverse returns into rotate, which
\* goes on with the statement after the call
ReverseReturn ==
    /\ pc = "reverse_17"
    /\ ~JsLt(start, end)
    /\ site # 0
    /\ pc' = CASE site = 11 -> "rotate_12"
              [] site = 12 -> "rotate_13"
              [] site = 13 -> "rotate_14"
    /\ start' = 0 /\ end' = 0 /\ site' = 0
    /\ UNCHANGED <<orig, frame, nums, k, normalized_k, n, read, write, cur, log>>

\* lines 17, 24: the loop test fails and reverse returns to the harness
ReverseReturnDirect ==
    /\ pc = "reverse_17"
    /\ ~JsLt(start, end)
    /\ site = 0
    /\ Return
    /\ UNCHANGED <<orig, frame, nums>>

Step ==
    \/ RotateEarlyReturn
    \/ RotateReverseAll
    \/ RotateReversePrefix
    \/ RotateReverseSuffix
    \/ RotateReturn
    \/ ReverseSwap
    \/ ReverseReturn

Next == RotateCall \/ Step

Spec == Init /\ [][Next]_vars

\* One call per run, of rotate or of reverse with any pair of indices.  The
\* code is sequential and nothing can suspend it, so a call in progress
\* always takes its next step.
NextRR ==
    \/ (log = <<>> /\ (RotateCall \/ ReverseCall))
    \/ Step
    \/ ReverseReturnDirect

FairSpec == Init /\ [][NextRR]_vars /\ WF_vars(Step \/ ReverseReturnDirect)

\* The inputs of rotate and the array of the documented reverse scenario.
ReverseInputs == RotateInputs \cup { Arr(<<1, 2, 3, 4, 5>>) }

InitRR ==
    /\ orig \in ReverseInputs
    /\ nums = orig
    /\ pc = "idle"
    /\ k = 0 /\ normalized_k = 0 /\ n = 0
    /\ start = 0 /\ end = 0 /\ site = 0
    /\ read = 0 /\ write = 0
    /\ frame = NoFrame
    /\ cur = NoCall
    /\ log = <<>>

\* One call per run, of rotate or of reverse with any pair of indices.
SpecRR == InitRR /\ [][NextRR]_vars

\* The harness calls rotate(nums, b) on the array the first call left.
RotateAgainCall ==
    /\ pc = "idle"
    /\ Len(log) = 1
    /\ \E b \in 0..MaxK :
        /\ k' = b
        /\ cur' = [NoCall EXCEPT !.fn = "rotate", !.args = <<b>>, !.before = nums]
    /\ pc' = "rotate_3"
    /\ UNCHANGED <<orig, frame, nums, normalized_k, n, start, end, site, read, write, log>>

\* The harness calls rotate on a fresh copy of its input, with the sum of the
\* counts of the two calls it has made.
RotateSumCall ==
    /\ pc = "idle"
    /\ Len(log) = 2
    /\ nums' = orig
    /\ k' = log[1].args[1] + log[2].args[1]
    /\ cur' = [NoCall EXCEPT !.fn = "rotate",
                             !.args = <<log[1].args[1] + log[2].args[1]>>,
                             !.before = orig]
    /\ pc' = "rotate_3"
    /\ UNCHANGED <<orig, frame, normalized_k, n, start, end, site, read, write, log>>

\* Three calls of rotate per run: by a, then by b on the result, then by
\* a + b on a fresh copy of the input.
NextCompose ==
    \/ (log = <<>> /\ RotateCall)
    \/ RotateAgainCall
    \/ RotateSumCall
    \/ Step

SpecCompose == Init /\ [][NextCompose]_vars

\* The harness calls reverse(nums, s, e) on the array the first call left.
ReverseAgainCall ==
    /\ pc = "idle"
    /\ Len(log) = 1
    /\ \E s \in IdxRange, e \in IdxRange :
        /\ start' = s
        /\ end' = e
        /\ cur' = [NoCall EXCEPT !.fn = "reverse", !.args = <<s, e>>, !.before = nums]
    /\ site' = 0
    /\ pc' = "reverse_17"
    /\ UNCHANGED <<orig, frame, nums, k, normalized_k, n, read, write, log>>

\* Two calls of reverse per run, the second on the result of the first.
NextTwice ==
    \/ (log = <<>> /\ ReverseCall)
    \/ ReverseAgainCall
    \/ ReverseSwap
    \/ ReverseReturnDirect

SpecTwice == InitRR /\ [][NextTwice]_vars

-----------------------------------------------------------------------------
(* move-zeroes.ts *)

MoveZeroesInputs == { Arr(s) : s \in SeqsOver(ZValues, MaxLenMZ) }

InitMZ ==
    /\ orig \in MoveZeroesInputs
    /\ nums = orig
    /\ pc = "idle"
    /\ k = 0 /\ normalized_k = 0 /\ n = 0
    /\ start = 0 /\ end = 0 /\ site = 0
    /\ read = 0 /\ write = 0
    /\ frame = NoFrame
    /\ cur = NoCall
    /\ log = <<>>

\* The harness calls moveZeroes(a) on the array it holds or on a fresh copy
\* of its input; lines 3-4 set both pointers to 0.
MoveZeroesCall ==
    /\ pc = "idle"
    /\ Len(log) < MaxCalls
    /\ \E a \in {nums, orig} :
        /\ nums' = a
        /\ cur' = [NoCall EXCEPT !.fn = "moveZeroes", !.before = a]
    /\ read' = 0
    /\ write' = 0
    /\ pc' = "moveZeroes_5"
    /\ UNCHANGED <<orig, frame, k, normalized_k, n, start, end, site, log>>

\* line 7: read !== write && nums[read] !== nums[write]
SwapNeeded(a, r, w) == r # w /\ Get(a, r) # Get(a, w)

\* Mutant: write advances past a zero as well.
MoveZeroesSkipZeroAdvancesWrite ==
    /\ pc = "moveZeroes_5"
    /\ read < Length(nums)
    /\ Get(nums, read) = 0
    /\ read' = read + 1
    /\ write' = write + 1
    /\ UNCHANGED <<orig, frame, nums, pc, k, normalized_k, n, start, end, site, cur, log>>

\* lines 5-6, 14: nums[read] is zero, only read advances
MoveZeroesSkipZero ==
    /\ pc = "moveZeroes_5"
    /\ read < Length(nums)
    /\ Get(nums, read) = 0
    /\ read' = read + 1
    /\ UNCHANGED <<orig, frame, nums, pc, k, normalized_k, n, start, end, site, write, cur, log>>

\* Mutant: write advances only when a swap was made.
MoveZeroesKeepNoAdvance ==
    /\ pc = "moveZeroes_5"
    /\ read < Length(nums)
    /\ Get(nums, read) # 0
    /\ ~SwapNeeded(nums, read, write)
    /\ read' = read + 1
    /\ UNCHANGED <<orig, frame, nums, pc, k, normalized_k, n, start, end, site, write, cur, log>>

\* lines 5-7, 12, 14: nums[read] is non-zero and already in place
MoveZeroesKeep ==
    /\ pc = "moveZeroes_5"
    /\ read < Length(nums)
    /\ Get(nums, read) # 0
    /\ ~SwapNeeded(nums, read, write)
    /\ write' = write + 1
    /\ read' = read + 1
    /\ UNCHANGED <<orig, frame, nums, pc, k, normalized_k, n, start, end, site, cur, log>>

\* Mutant: the exchange without temp, nums[read] reads back what was just
\* written to nums[write].
MoveZeroesSwapNoTemp ==
    /\ pc = "moveZeroes_5"
    /\ read < Length(nums)
    /\ Get(nums, read) # 0
    /\ SwapNeeded(nums, read, write)
    /\ nums' = Put(nums, write, Get(nums, read))
    /\ cur' = [cur EXCEPT !.swaps = @ + 1]
    /\ write' = write + 1
    /\ read' = read + 1
    /\ UNCHANGED <<orig, frame, pc, k, normalized_k, n, start, end, site, log>>

\* lines 5-14: nums[read] is non-zero and is exchanged with nums[write]
MoveZeroesSwap ==
    /\ pc = "moveZeroes_5"
    /\ read < Length(nums)
    /\ Get(nums, read) # 0
    /\ SwapNeeded(nums, read, write)
    /\ nums' = LET temp == Get(nums, write)
                IN  Put(Put(nums, write, Get(nums, read)), read, temp)
    /\ cur' = [cur EXCEPT !.swaps = @ + 1]
    /\ write' = write + 1
    /\ read' = read + 1
    /\ UNCHANGED <<orig, frame, pc, k, normalized_k, n, start, end, site, log>>

\* lines 5, 16: read has reached the length and moveZeroes returns
MoveZeroesReturn ==
    /\ pc = "moveZeroes_5"
    /\ ~(read < Length(nums))
    /\ Return
    /\ UNCHANGED <<orig, frame, nums>>

NextMZ ==
    \/ MoveZeroesCall
    \/ MoveZeroesSkipZero
    \/ MoveZeroesKeep
    \/ MoveZeroesSwap
    \/ MoveZeroesReturn

SpecMZ == InitMZ /\ [][NextMZ]_vars

-----------------------------------------------------------------------------
(* two-sum.ts *)

TwoSumInputs == { Arr(s) : s \in SeqsOver(TSValues, MaxLenTS) }

Targets == (0 - MaxTarget)..MaxTarget

InitTS ==
    /\ orig \in TwoSumInputs
    /\ nums = orig
    /\ pc = "idle"
    /\ k = 0 /\ normalized_k = 0 /\ n = 0
    /\ start = 0 /\ end = 0 /\ site = 0
    /\ read = 0 /\ write = 0
    /\ frame = NoFrame
    /\ cur = NoCall
    /\ log = <<>>

\* a function that returns a value returns v to the harness
ReturnValue(v) ==
    /\ pc' = "idle"
    /\ log' = Append(log, [fn |-> cur.fn, args |-> cur.args, before |-> cur.before,
                           after |-> nums, ranges |-> cur.ranges,
                           swaps |-> cur.swaps, result |-> v])
    /\ cur' = NoCall
    /\ frame' = NoFrame
    /\ UNCHANGED <<orig, nums, k, normalized_k, n, start, end, site, read, write>>

\* new Map()
EmptyMap == <<>>

\* map.has(key)
MapHas(m, key) == key \in DOMAIN m

\* map.get(key), for a key the map has
MapGet(m, key) == m[key]

\* map.set(key, v)
MapSet(m, key, v) == [x \in (DOMAIN m) \cup {key} |-> IF x = key THEN v ELSE m[x]]

\* Mutant: the operands of the subtraction exchanged.
DiffSwapped(t, v) == v - t

\* line 5: target - nums[i]
Diff(t, v) == t - v

\* Mutant: the scan starts at index 1.
TwoSumCallFromOne ==
    /\ pc = "idle"
    /\ log = <<>>
    /\ \E t \in Targets :
        /\ frame' = [target |-> t, i |-> 1, map |-> EmptyMap]
        /\ cur' = [NoCall EXCEPT !.fn = "twoSum", !.args = <<t>>, !.before = nums]
    /\ pc' = "twoSum_4"
    /\ UNCHANGED <<orig, nums, k, normalized_k, n, start, end, site, read, write, log>>

\* The harness calls twoSum(nums, t), once per run; lines 3-4 make the empty
\* map and set i to 0.
TwoSumCall ==
    /\ pc = "idle"
    /\ log = <<>>
    /\ \E t \in Targets :
        /\ frame' = [target |-> t, i |-> 0, map |-> EmptyMap]
        /\ cur' = [NoCall EXCEPT !.fn = "twoSum", !.args = <<t>>, !.before = nums]
    /\ pc' = "twoSum_4"
    /\ UNCHANGED <<orig, nums, k, normalized_k, n, start, end, site, read, write, log>>

\* Mutant: the pair is returned with the stored index first.
TwoSumFoundSwapped ==
    /\ pc = "twoSum_4"
    /\ frame.i < Length(nums)
    /\ MapHas(frame.map, Diff(frame.target, Get(nums, frame.i)))
    /\ ReturnValue(<<MapGet(frame.map, Diff(frame.target, Get(nums, frame.i))), frame.i>>)

\* lines 4-7: the map has the complement of nums[i], the pair is returned
TwoSumFound ==
    /\ pc = "twoSum_4"
    /\ frame.i < Length(nums)
    /\ MapHas(frame.map, Diff(frame.target, Get(nums, frame.i)))
    /\ ReturnValue(<<frame.i, MapGet(frame.map, Diff(frame.target, Get(nums, frame.i)))>>)

\* lines 4-6, 8-10: the map lacks the complement, nums[i] is stored under i
TwoSumStore ==
    /\ pc = "twoSum_4"
    /\ frame.i < Length(nums)
    /\ ~MapHas(frame.map, Diff(frame.target, Get(nums, frame.i)))
    /\ frame' = [frame EXCEPT !.map = MapSet(@, Get(nums, frame.i), frame.i),
                              !.i = @ + 1]
    /\ UNCHANGED <<orig, nums, pc, k, normalized_k, n, start, end, site, read, write,
                   cur, log>>

\* lines 4, 12: the scan is over, [-1, -1] is returned
TwoSumNotFound ==
    /\ pc = "twoSum_4"
    /\ ~(frame.i < Length(nums))
    /\ ReturnValue(<<-1, -1>>)

NextTS ==
    \/ TwoSumCall
    \/ TwoSumFound
    \/ TwoSumStore
    \/ TwoSumNotFound

SpecTS == InitTS /\ [][NextTS]_vars

-----------------------------------------------------------------------------
(* maximum-subarray.ts *)

MaxSubInputs == { Arr(s) : s \in SeqsOver(MSValues, MaxLenMS) }

InitMS ==
    /\ orig \in MaxSubInputs
    /\ nums = orig
    /\ pc = "idle"
    /\ k = 0 /\ normalized_k = 0 /\ n = 0
    /\ start = 0 /\ end = 0 /\ site = 0
    /\ read = 0 /\ write = 0
    /\ frame = NoFrame
    /\ cur = NoCall
    /\ log = <<>>

\* Math.max(a, b) on integers
MathMax(a, b) == IF a >= b THEN a ELSE b

\* The harness calls maxSubArray(nums), once per run.
MaxSubCall ==
    /\ pc = "idle"
    /\ log = <<>>
    /\ cur' = [NoCall EXCEPT !.fn = "maxSubArray", !.before = nums]
    /\ frame' = [bestSum |-> 0, currentSum |-> 0, i |-> 0]
    /\ pc' = "maxSubArray_17"
    /\ UNCHANGED <<orig, nums, k, normalized_k, n, start, end, site, read, write, log>>

\* line 17: an array of one element, the element is returned
MaxSubSingle ==
    /\ pc = "maxSubArray_17"
    /\ Length(nums) = 1
    /\ ReturnValue(Get(nums, 0))

\* Mutant: the best sum starts at 0.
MaxSubInitBestZero ==
    /\ pc = "maxSubArray_17"
    /\ Length(nums) # 1
    /\ frame' = [bestSum |-> 0, currentSum |-> 0, i |-> 0]
    /\ pc' = "maxSubArray_20"
    /\ UNCHANGED <<orig, nums, k, normalized_k, n, start, end, site, read, write,
                   cur, log>>

\* lines 17-20: bestSum = nums[0], currentSum = 0, i = 0
MaxSubInit ==
    /\ pc = "maxSubArray_17"
    /\ Length(nums) # 1
    /\ frame' = [bestSum |-> Get(nums, 0), currentSum |-> 0, i |-> 0]
    /\ pc' = "maxSubArray_20"
    /\ UNCHANGED <<orig, nums, k, normalized_k, n, start, end, site, read, write,
                   cur, log>>

\* lines 20-22: one iteration of the loop
MaxSubStep ==
    /\ pc = "maxSubArray_20"
    /\ frame.i < Length(nums)
    /\ LET c == MathMax(Get(nums, frame.i), frame.currentSum + Get(nums, frame.i))
       IN  frame' = [bestSum |-> MathMax(frame.bestSum, c),
                     currentSum |-> c,
                     i |-> frame.i + 1]
    /\ UNCHANGED <<orig, nums, pc, k, normalized_k, n, start, end, site, read, write,
                   cur, log>>

\* lines 20, 24: the loop is over, bestSum is returned
MaxSubReturn ==
    /\ pc = "maxSubArray_20"
    /\ ~(frame.i < Length(nums))
    /\ ReturnValue(frame.bestSum)

NextMS ==
    \/ MaxSubCall
    \/ MaxSubSingle
    \/ MaxSubInit
    \/ MaxSubStep
    \/ MaxSubReturn

SpecMS == InitMS /\ [][NextMS]_vars

-----------------------------------------------------------------------------
(* lca.ts *)

\* null
Null == <<>>

\* new TreeNode(val, left, right)
TreeNode(val, left, right) == <<val, left, right>>

\* node.val, node.left, node.right
Val(node) == node[1]

Left(node) == node[2]

Right(node) == node[3]

RECURSIVE BSTs(_, _)
\* The binary search trees whose values are 2*lo, 2*(lo+1), ..., 2*hi.
BSTs(lo, hi) ==
    IF lo > hi THEN {Null}
    ELSE UNION { { TreeNode(2 * v, l, r) : l \in BSTs(lo, v - 1), r \in BSTs(v + 1, hi) } :
                 v \in lo..hi }

Trees == UNION { BSTs(1, m) : m \in 0..MaxNodes }

RECURSIVE Nodes(_)
\* The nodes of the tree rooted at t; a node stands for its whole subtree.
Nodes(t) == IF t = Null THEN {} ELSE {t} \cup Nodes(Left(t)) \cup Nodes(Right(t))

\* The values r_lca is called with directly: those of the nodes and the odd
\* numbers between and around them, which no node has.
Probes == 1..(2 * MaxNodes + 1)

InitLCA ==
    /\ orig \in Trees
    /\ nums = <<>>
    /\ pc = "idle"
    /\ k = 0 /\ normalized_k = 0 /\ n = 0
    /\ start = 0 /\ end = 0 /\ site = 0
    /\ read = 0 /\ write = 0
    /\ frame = NoFrame
    /\ cur = NoCall
    /\ log = <<>>

\* Math.min(a, b) on integers
MathMin(a, b) == IF a <= b THEN a ELSE b

\* Mutant: r_lca is called with p.val and q.val as they come.
LcaEnterNoMinMax(pn, qn) ==
    /\ cur' = [NoCall EXCEPT !.fn = "lowestCommonAncestor",
                             !.args = <<pn, qn>>, !.before = orig]
    /\ frame' = [root |-> orig, p |-> Val(pn), q |-> Val(qn)]
    /\ pc' = "r_lca_25"
    /\ UNCHANGED <<orig, nums, k, normalized_k, n, start, end, site, read, write, log>>

\* lines 16-22: lowestCommonAncestor(root, pn, qn) calls r_lca with the
\* smaller and the larger of the values of pn and qn.
LcaEnter(pn, qn) ==
    /\ cur' = [NoCall EXCEPT !.fn = "lowestCommonAncestor",
                             !.args = <<pn, qn>>, !.before = orig]
    /\ frame' = [root |-> orig,
                 p |-> MathMin(Val(pn), Val(qn)),
                 q |-> MathMax(Val(pn), Val(qn))]
    /\ pc' = "r_lca_25"
    /\ UNCHANGED <<orig, nums, k, normalized_k, n, start, end, site, read, write, log>>

\* The harness calls lowestCommonAncestor(root, pn, qn) with two nodes of the
\* tree, as the first call of a run.
LcaCall ==
    /\ pc = "idle"
    /\ log = <<>>
    /\ \E pn \in Nodes(orig), qn \in Nodes(orig) : LcaEnter(pn, qn)

\* The harness calls lowestCommonAncestor a second time on the same tree.
LcaAgainCall ==
    /\ pc = "idle"
    /\ Len(log) = 1
    /\ log[1].fn = "lowestCommonAncestor"
    /\ \E pn \in Nodes(orig), qn \in Nodes(orig) : LcaEnter(pn, qn)

\* The harness calls r_lca(root, pv, qv) directly with any two values.
RLcaCall ==
    /\ pc = "idle"
    /\ log = <<>>
    /\ \E pv \in Probes, qv \in Probes :
        /\ cur' = [NoCall EXCEPT !.fn = "r_lca", !.args = <<pv, qv>>, !.before = orig]
        /\ frame' = [root |-> orig, p |-> pv, q |-> qv]
    /\ pc' = "r_lca_25"
    /\ UNCHANGED <<orig, nums, k, normalized_k, n, start, end, site, read, write, log>>

\* Mutant: the test with p and q exchanged.
BetweenSwapped(pv, value, qv) == qv < value /\ value < pv

\* line 31: p < value && value < q
Between(pv, value, qv) == pv < value /\ value < qv

\* line 35: p == value || q == value
IsEither(pv, value, qv) == pv = value \/ qv = value

\* line 39: p <= value && q <= value
BothAtMost(pv, value, qv) == pv <= value /\ qv <= value

\* line 43: p >= value && q >= value
BothAtLeast(pv, value, qv) == pv >= value /\ qv >= value

\* r_lca(child, p, q) is returned: the call goes on in the child
Descend(child) ==
    /\ frame' = [frame EXCEPT !.root = child]
    /\ UNCHANGED <<orig, nums, pc, k, normalized_k, n, start, end, site, read, write,
                   cur, log>>

\* lines 25-27: root is null
RLcaNull ==
    /\ pc = "r_lca_25"
    /\ frame.root = Null
    /\ ReturnValue(Null)

\* lines 29-33: the value of root lies strictly between p and q
RLcaBetween ==
    /\ pc = "r_lca_25"
    /\ frame.root # Null
    /\ Between(frame.p, Val(frame.root), frame.q)
    /\ ReturnValue(frame.root)

\* lines 35-37: the value of root is p or q
RLcaEither ==
    /\ pc = "r_lca_25"
    /\ frame.root # Null
    /\ ~Between(frame.p, Val(frame.root), frame.q)
    /\ IsEither(frame.p, Val(frame.root), frame.q)
    /\ ReturnValue(frame.root)

\* Mutant: the search goes on in the right child.
RLcaLeftGoesRight ==
    /\ pc = "r_lca_25"
    /\ frame.root # Null
    /\ ~Between(frame.p, Val(frame.root), frame.q)
    /\ ~IsEither(frame.p, Val(frame.root), frame.q)
    /\ BothAtMost(frame.p, Val(frame.root), frame.q)
    /\ Descend(Right(frame.root))

\* lines 39-41: both values are below root, the search goes on in the left child
RLcaLeft ==
    /\ pc = "r_lca_25"
    /\ frame.root # Null
    /\ ~Between(frame.p, Val(frame.root), frame.q)
    /\ ~IsEither(frame.p, Val(frame.root), frame.q)
    /\ BothAtMost(frame.p, Val(frame.root), frame.q)
    /\ Descend(Left(frame.root))

\* lines 43-45: both values are above root, the search goes on in the right child
RLcaRight ==
    /\ pc = "r_lca_25"
    /\ frame.root # Null
    /\ ~Between(frame.p, Val(frame.root), frame.q)
    /\ ~IsEither(frame.p, Val(frame.root), frame.q)
    /\ ~BothAtMost(frame.p, Val(frame.root), frame.q)
    /\ BothAtLeast(frame.p, Val(frame.root), frame.q)
    /\ Descend(Right(frame.root))

\* line 46: none of the four tests held
RLcaFallThrough ==
    /\ pc = "r_lca_25"
    /\ frame.root # Null
    /\ ~Between(frame.p, Val(frame.root), frame.q)
    /\ ~IsEither(frame.p, Val(frame.root), frame.q)
    /\ ~BothAtMost(frame.p, Val(frame.root), frame.q)
    /\ ~BothAtLeast(frame.p, Val(frame.root), frame.q)
    /\ ReturnValue(Null)

NextLCA ==
    \/ LcaCall
    \/ RLcaCall
    \/ RLcaNull
    \/ RLcaBetween
    \/ RLcaEither
    \/ RLcaLeft
    \/ RLcaRight
    \/ RLcaFallThrough

SpecLCA == InitLCA /\ [][NextLCA]_vars

\* As NextLCA, with a second call of lowestCommonAncestor on the same tree.
NextSym == NextLCA \/ LcaAgainCall

SpecSym == InitLCA /\ [][NextSym]_vars

-----------------------------------------------------------------------------
(* Properties of rotate *)

\* The completed calls of f.  log changes only when a call returns, so every
\* value it takes is seen in a state where the harness is idle.
Calls(f) == IF pc = "idle" THEN { i \in DOMAIN log : log[i].fn = f } ELSE {}

Elems(a) == { Get(a, i) : i \in 0..(Length(a) - 1) }

Count(a, v) == Cardinality({ i \in 0..(Length(a) - 1) : Get(a, i) = v })

\* C1: after rotate(seq, k) with k >= 0 on a sequence of length len >= 1, the
\* element that was at index i is at index (i + k) mod len, for every i.
RotatesRightByK ==
    \A c \in Calls("rotate") :
        LET e == log[c]
            len == Length(e.before)
            kk == e.args[1]
        IN  (len >= 1 /\ kk >= 0) =>
                \A i \in 0..(len - 1) :
                    Get(e.after, (i + kk) % len) = Get(e.before, i)

\* A rotation of three distinct elements by a count that wraps (k > length).
RotatesRightByKWitness ==
    \E c \in Calls("rotate") :
        /\ log[c].before = Arr(<<1, 2, 3>>)
        /\ log[c].args[1] = 5
        /\ log[c].after = Arr(<<2, 3, 1>>)

\* C2: for every sequence and every k >= 0, rotate leaves the length and the
\* multiset of elements unchanged.
RotateKeepsMultiset ==
    \A c \in Calls("rotate") :
        LET e == log[c]
        IN  e.args[1] >= 0 =>
                /\ Length(e.after) = Length(e.before)
                /\ \A v \in Elems(e.before) \cup Elems(e.after) :
                        Count(e.after, v) = Count(e.before, v)

\* A rotation that moved elements of an array holding a value twice.
RotateKeepsMultisetWitness ==
    \E c \in Calls("rotate") :
        /\ log[c].args[1] >= 0
        /\ log[c].before = Arr(<<1, 1, 2>>)
        /\ log[c].after # log[c].before
        /\ log[c].swaps >= 2

\* C3: rotate with a negative k leaves the sequence as it was.
NegativeKLeavesSequenceUnchanged ==
    \A c \in Calls("rotate") :
        log[c].args[1] < 0 => log[c].after = log[c].before

\* C4: on a sequence of length len > 0, rotate(seq, k) with k >= 0 followed by
\* rotate(seq, len - (k mod len)) restores the original order.
RotateBackRestores ==
    \A c \in Calls("rotate"), d \in Calls("rotate") :
        LET e1 == log[c]
            e2 == log[d]
            len == Length(e1.before)
        IN  (/\ d = c + 1
             /\ e2.before = e1.after
             /\ len > 0
             /\ e1.args[1] >= 0
             /\ e2.args[1] = len - (e1.args[1] % len)) =>
                e2.after = e1.before

\* Two calls in a row, the first moving the elements and the second its inverse.
RotateBackRestoresWitness ==
    /\ Len(log) = 2
    /\ log[1].fn = "rotate" /\ log[2].fn = "rotate"
    /\ log[1].before = Arr(<<1, 2, 3>>)
    /\ log[1].args[1] = 4
    /\ log[1].after = Arr(<<3, 1, 2>>)
    /\ log[2].before = log[1].after
    /\ log[2].args[1] = 2
    /\ log[2].after = Arr(<<1, 2, 3>>)

\* C5: on equal sequences of length len > 0, rotate(seq, k) and
\* rotate(seq, k + len) with k >= 0 produce identical results.
RotateWrapsModuloLength ==
    \A c \in Calls("rotate"), d \in Calls("rotate") :
        LET e1 == log[c]
            e2 == log[d]
            len == Length(e1.before)
        IN  (/\ e2.before = e1.before
             /\ len > 0
             /\ e1.args[1] >= 0
             /\ e2.args[1] = e1.args[1] + len) =>
                e2.after = e1.after

\* The same array rotated by 2 and, from a fresh copy, by 2 + 3.
RotateWrapsModuloLengthWitness ==
    /\ Len(log) = 2
    /\ log[1].fn = "rotate" /\ log[2].fn = "rotate"
    /\ log[1].before = Arr(<<1, 2, 3>>)
    /\ log[2].before = Arr(<<1, 2, 3>>)
    /\ log[1].args[1] = 2
    /\ log[2].args[1] = 5
    /\ log[1].after = Arr(<<2, 3, 1>>)

\* C6: on a sequence of length 0 or 1 rotate, for any k, leaves the sequence
\* unchanged, calls no reversal and completes; in particular on the empty
\* sequence, where k % length is NaN.
RotateShortIsNoOp ==
    \A c \in Calls("rotate") :
        LET e == log[c]
        IN  Length(e.before) <= 1 =>
                /\ e.after = e.before
                /\ e.ranges = <<>>
                /\ e.swaps = 0

\* rotate([], 5) has returned.
RotateShortIsNoOpWitness ==
    \E c \in Calls("rotate") :
        /\ log[c].before = Arr(<<>>)
        /\ log[c].args[1] = 5
        /\ JsRem(log[c].args[1], Length(log[c].before)) = NaN

\* C7: on a sequence of length len >= 1, rotate with k >= 0 and k mod len = 0
\* calls no reversal and leaves every position unchanged.
RotateMultipleOfLengthIsNoOp ==
    \A c \in Calls("rotate") :
        LET e == log[c]
            len == Length(e.before)
        IN  (len >= 1 /\ e.args[1] >= 0 /\ e.args[1] % len = 0) =>
                /\ e.ranges = <<>>
                /\ e.swaps = 0
                /\ e.after = e.before

\* rotate([1,2,3], 3) has returned.
RotateMultipleOfLengthIsNoOpWitness ==
    \E c \in Calls("rotate") :
        /\ log[c].before = Arr(<<1, 2, 3>>)
        /\ log[c].args[1] = 3

\* C8: every call of rotate, and every call of reverse with any pair of
\* integer indices, returns.
CallsTerminate == (pc # "idle") ~> (pc = "idle")

\* A rotate that ran all three reversals has returned.
CallsTerminateWitness ==
    \E c \in Calls("rotate") :
        /\ log[c].args[1] >= 0
        /\ Len(log[c].ranges) = 3
        /\ log[c].swaps >= 2

\* C9: the four concrete scenarios of rotate.
RotateScenarios ==
    \A c \in Calls("rotate") :
        LET e == log[c]
        IN  /\ (e.before = Arr(<<1, 2, 3, 4, 5, 6, 7>>) /\ e.args[1] = 3) =>
                    e.after = Arr(<<5, 6, 7, 1, 2, 3, 4>>)
            /\ (e.before = Arr(<<-1, -100, 3, 99>>) /\ e.args[1] = 2) =>
                    e.after = Arr(<<3, 99, -1, -100>>)
            /\ (e.before = Arr(<<1, 2>>) /\ e.args[1] = 3) =>
                    e.after = Arr(<<2, 1>>)
            /\ (e.before = Arr(<<1>>) /\ e.args[1] = 5) =>
                    e.after = Arr(<<1>>)

\* rotate([1,2,3,4,5,6,7], 3) has returned.
RotateScenariosWitness ==
    \E c \in Calls("rotate") :
        /\ log[c].before = Arr(<<1, 2, 3, 4, 5, 6, 7>>)
        /\ log[c].args[1] = 3

\* C21: for a sequence of length len >= 1 and non-negative a and b,
\* rotate(seq, a) followed by rotate(seq, b) leaves the sequence as a single
\* rotate(seq, a + b) on the original sequence does.
RotateComposes ==
    \A c \in Calls("rotate"), d \in Calls("rotate"), e \in Calls("rotate") :
        (/\ d = c + 1
         /\ log[d].before = log[c].after
         /\ log[e].before = log[c].before
         /\ Length(log[c].before) >= 1
         /\ log[c].args[1] >= 0
         /\ log[d].args[1] >= 0
         /\ log[e].args[1] = log[c].args[1] + log[d].args[1]) =>
            log[e].after = log[d].after

\* [1,2,3] rotated by 2 and then by 5, and a fresh copy rotated by 7.
RotateComposesWitness ==
    /\ Len(log) = 3
    /\ log[1].before = Arr(<<1, 2, 3>>) /\ log[1].args[1] = 2
    /\ log[2].before = Arr(<<2, 3, 1>>) /\ log[2].args[1] = 5
    /\ log[3].before = Arr(<<1, 2, 3>>) /\ log[3].args[1] = 7
    /\ log[3].after = Arr(<<3, 1, 2>>)

-----------------------------------------------------------------------------
(* Properties of moveZeroes *)

\* The elements of a at indices 0..length-1, in order, as a sequence.
ToSeq(a) == [i \in 1..Length(a) |-> Get(a, i - 1)]

IsNonZero(v) == v # 0

NonZeros(a) == SelectSeq(ToSeq(a), IsNonZero)

\* C10: after moveZeroes(nums) every non-zero element precedes every zero
\* element and the non-zero elements are in the order they had before.
MoveZeroesOrders ==
    \A c \in Calls("moveZeroes") :
        LET e == log[c]
        IN  /\ \A i \in 0..(Length(e.after) - 1), j \in 0..(Length(e.after) - 1) :
                    (Get(e.after, i) = 0 /\ Get(e.after, j) # 0) => j < i
            /\ NonZeros(e.after) = NonZeros(e.before)

\* moveZeroes([0,1,0,2]) has returned [1,2,0,0].
MoveZeroesOrdersWitness ==
    \E c \in Calls("moveZeroes") :
        /\ log[c].before = Arr(<<0, 1, 0, 2>>)
        /\ log[c].after = Arr(<<1, 2, 0, 0>>)
        /\ log[c].swaps = 2

\* C11: moveZeroes works in place: the array has the same length and the same
\* number of occurrences of every value (zeros included) after the call.
MoveZeroesKeepsMultiset ==
    \A c \in Calls("moveZeroes") :
        LET e == log[c]
        IN  /\ Length(e.after) = Length(e.before)
            /\ \A v \in Elems(e.before) \cup Elems(e.after) \cup {0} :
                    Count(e.after, v) = Count(e.before, v)

\* moveZeroes([0,0,1,1]) has returned, having moved both non-zero elements.
MoveZeroesKeepsMultisetWitness ==
    \E c \in Calls("moveZeroes") :
        /\ log[c].before = Arr(<<0, 0, 1, 1>>)
        /\ log[c].after # log[c].before
        /\ log[c].swaps = 2
        /\ Count(log[c].after, 0) = 2

\* C25: throughout the loop of moveZeroes, write <= read <= length, every
\* element below write is non-zero and every element in write..read-1 is
\* zero; at loop exit write is the number of non-zero elements of the input.
MoveZeroesLoopInvariant ==
    pc = "moveZeroes_5" =>
        /\ write <= read /\ read <= Length(nums)
        /\ \A i \in 0..(write - 1) : Get(nums, i) # 0
        /\ \A i \in write..(read - 1) : Get(nums, i) = 0
        /\ ~(read < Length(nums)) => write = Len(NonZeros(cur.before))

\* The loop of moveZeroes([0,1,0,2]) is at its exit: [1,2,0,0], write = 2.
MoveZeroesLoopInvariantWitness ==
    /\ pc = "moveZeroes_5"
    /\ cur.before = Arr(<<0, 1, 0, 2>>)
    /\ read = 4 /\ write = 2
    /\ nums = Arr(<<1, 2, 0, 0>>)

\* C29: in every state of the loop where nums[read] is non-zero and read
\* differs from write, nums[write] is zero, so the test of line 7 holds and
\* the swap is executed.
MoveZeroesSwapNeverSuppressed ==
    (/\ pc = "moveZeroes_5"
     /\ read < Length(nums)
     /\ Get(nums, read) # 0
     /\ read # write) =>
        /\ Get(nums, write) = 0
        /\ SwapNeeded(nums, read, write)
        /\ ENABLED MoveZeroesSwap
        /\ ~ENABLED MoveZeroesKeep

\* moveZeroes([0,1,0,2]) stands at read = 1, write = 0: a 1 to move to the front.
MoveZeroesSwapNeverSuppressedWitness ==
    /\ pc = "moveZeroes_5"
    /\ nums = Arr(<<0, 1, 0, 2>>)
    /\ read = 1 /\ write = 0

-----------------------------------------------------------------------------
(* Properties of reverse, and of rotate step by step *)

InBounds(a, s, e) == 0 <= s /\ s <= e /\ e < Length(a)

\* C16: for 0 <= start <= end < length, after reverse(seq, start, end) every
\* index i in start..end holds the element that was at start + end - i; and
\* reverse([1,2,3,4,5], 1, 3) yields [1,4,3,2,5].
ReverseReversesRange ==
    \A c \in Calls("reverse") :
        LET e == log[c]
            s == e.args[1]
            t == e.args[2]
        IN  /\ InBounds(e.before, s, t) =>
                    \A i \in s..t : Get(e.after, i) = Get(e.before, s + t - i)
            /\ (e.before = Arr(<<1, 2, 3, 4, 5>>) /\ s = 1 /\ t = 3) =>
                    e.after = Arr(<<1, 4, 3, 2, 5>>)

\* reverse([1,2,3,4,5], 1, 3) has returned.
ReverseReversesRangeWitness ==
    \E c \in Calls("reverse") :
        /\ log[c].before = Arr(<<1, 2, 3, 4, 5>>)
        /\ log[c].args = <<1, 3>>
        /\ log[c].swaps = 1

\* The reversals rotate has called so far in the call in progress.
RotateInProgress == cur.fn = "rotate" /\ cur.ranges # <<>>

\* C17: every call of reverse made by rotate with k >= 0 has
\* 0 <= start <= end < length; past the early return the length is at least 2
\* and 1 <= normalized_k <= length - 1.
RotateCallsReverseInBounds ==
    /\ (RotateInProgress /\ cur.args[1] >= 0) =>
            /\ Length(nums) >= 2
            /\ 1 <= normalized_k /\ normalized_k <= Length(nums) - 1
            /\ \A r \in DOMAIN cur.ranges :
                    InBounds(nums, cur.ranges[r][1], cur.ranges[r][2])
            /\ (pc = "reverse_17") =>
                    /\ cur.ranges[Len(cur.ranges)][1] <= start
                    /\ end <= cur.ranges[Len(cur.ranges)][2]
    /\ \A c \in Calls("rotate") :
            log[c].args[1] >= 0 =>
                \A r \in DOMAIN log[c].ranges :
                    InBounds(log[c].before, log[c].ranges[r][1], log[c].ranges[r][2])

\* rotate has just called reverse on the one-element suffix [2, 2] of an array
\* of length 3.
RotateCallsReverseInBoundsWitness ==
    /\ pc = "reverse_17" /\ site = 13
    /\ k = 5 /\ normalized_k = 2
    /\ Length(nums) = 3
    /\ cur.ranges = << <<0, 2>>, <<0, 1>>, <<2, 2>> >>

\* The three ranges rotate reverses on an array of length len.
ThreeRanges(len, nk) == << <<0, len - 1>>, <<0, nk - 1>>, <<nk, len - 1>> >>

RotateStages ==
    LET b == cur.before
        len == Length(cur.before)
    IN  /\ pc = "rotate_12" =>
                /\ cur.ranges = SubSeq(ThreeRanges(len, normalized_k), 1, 1)
                /\ Length(nums) = len
                /\ \A i \in 0..(len - 1) : Get(nums, i) = Get(b, len - 1 - i)
        /\ pc = "rotate_13" =>
                /\ cur.ranges = SubSeq(ThreeRanges(len, normalized_k), 1, 2)
                /\ \A j \in 0..(normalized_k - 1) :
                        Get(nums, j) = Get(b, (j + len - normalized_k) % len)
        /\ pc = "rotate_14" =>
                cur.ranges = ThreeRanges(len, normalized_k)
        /\ \A c \in Calls("rotate") :
                LET e == log[c]
                    l == Length(e.before)
                    nk == JsRem(e.args[1], l)
                IN  IF EarlyReturn(nk, l)
                    THEN e.ranges = <<>>
                    ELSE e.ranges = ThreeRanges(l, nk)

PrefixKept ==
    (cur.fn = "rotate" /\ (pc = "rotate_13" \/ (pc = "reverse_17" /\ site = 13))) =>
        \A j \in 0..(normalized_k - 1) : Get(nums', j) = Get(nums, j)

\* C18: when rotate does not return early it reverses exactly [0, length-1],
\* then [0, normalized_k-1], then [normalized_k, length-1]; after the first
\* step the sequence is the reversal of the input, and after the second the
\* first normalized_k positions hold their final values and keep them.
RotateThreeReversals == []RotateStages /\ [][PrefixKept]_vars

\* rotate([1,2,3], 2) stands after its second reversal: [3,2,1] has become
\* [2,3,1], whose first two positions are final.
RotateThreeReversalsWitness ==
    /\ pc = "rotate_13"
    /\ cur.before = Arr(<<1, 2, 3>>)
    /\ normalized_k = 2
    /\ nums = Arr(<<2, 3, 1>>)

\* C19: reverse(seq, start, end) with start >= end (start == end included)
\* runs the loop body zero times and leaves the sequence unchanged.
ReverseEmptyRangeIsNoOp ==
    \A c \in Calls("reverse") :
        LET e == log[c]
        IN  e.args[1] >= e.args[2] =>
                /\ e.swaps = 0
                /\ e.after = e.before

\* reverse(seq, 1, 1) has returned, on an array of length 3.
ReverseEmptyRangeIsNoOpWitness ==
    \E c \in Calls("reverse") :
        /\ log[c].args = <<1, 1>>
        /\ Length(log[c].before) = 3

\* The swaps of the three reversals of rotate on length len with k' = nk.
ThreeReversalSwaps(len, nk) == (len \div 2) + (nk \div 2) + ((len - nk) \div 2)

ReverseSwapCount ==
    \A c \in Calls("reverse") :
        LET e == log[c]
        IN  e.args[1] <= e.args[2] =>
                e.swaps = (e.args[2] - e.args[1] + 1) \div 2

\* C20 as stated: for length n >= 1 and any k >= 0 rotate performs
\* floor(n/2) + floor(k'/2) + floor((n-k')/2) swaps, k' = k mod n, at most n;
\* reverse with start <= end performs floor((end - start + 1) / 2) swaps.
RotateSwapCountAnyK ==
    /\ \A c \in Calls("rotate") :
            LET e == log[c]
                len == Length(e.before)
            IN  (len >= 1 /\ e.args[1] >= 0) =>
                    /\ e.swaps = ThreeReversalSwaps(len, e.args[1] % len)
                    /\ e.swaps <= len
    /\ ReverseSwapCount

\* C20 amended: the count is that of the three reversals when rotate runs
\* them (k' # 0 and n >= 2), and 0 when rotate returns early; it is at most n
\* in both cases; reverse with start <= end performs
\* floor((end - start + 1) / 2) swaps.
RotateSwapCount ==
    /\ \A c \in Calls("rotate") :
            LET e == log[c]
                len == Length(e.before)
            IN  (len >= 1 /\ e.args[1] >= 0) =>
                    /\ e.swaps = IF e.args[1] % len = 0
                                 THEN 0
                                 ELSE ThreeReversalSwaps(len, e.args[1] % len)
                    /\ e.swaps <= len
    /\ ReverseSwapCount

\* rotate([1,2,3,4,5,6,7], 3) has returned after 3 + 1 + 2 swaps.
RotateSwapCountWitness ==
    \E c \in Calls("rotate") :
        /\ log[c].before = Arr(<<1, 2, 3, 4, 5, 6, 7>>)
        /\ log[c].args[1] = 3
        /\ log[c].swaps = 6

\* C22: reverse(seq, start, end) with 0 <= start <= end < length changes no
\* position outside start..end and leaves the length unchanged.
ReverseKeepsOutside ==
    \A c \in Calls("reverse") :
        LET e == log[c]
            s == e.args[1]
            t == e.args[2]
        IN  InBounds(e.before, s, t) =>
                /\ Length(e.after) = Length(e.before)
                /\ DOMAIN e.after = DOMAIN e.before
                /\ \A i \in DOMAIN e.before : (i < s \/ i > t) => e.after[i] = e.before[i]

\* reverse([1,2,3,4,5,6,7], 1, 3) has returned: index 0 and the indices 4..6
\* lie outside the range, inside which two positions changed.
ReverseKeepsOutsideWitness ==
    \E c \in Calls("reverse") :
        /\ log[c].before = Arr(<<1, 2, 3, 4, 5, 6, 7>>)
        /\ log[c].args = <<1, 3>>
        /\ log[c].after = Arr(<<1, 4, 3, 2, 5, 6, 7>>)

SameMultiset(a, b) ==
    /\ DOMAIN a = DOMAIN b
    /\ \A v \in Elems(a) \cup Elems(b) : Count(a, v) = Count(b, v)

RotateIsPermutation ==
    (cur.fn = "rotate" /\ cur.args[1] >= 0) => SameMultiset(nums, cur.before)

RotateOnlySwaps ==
    (cur.fn = "rotate" /\ cur.args[1] >= 0 /\ nums' # nums) =>
        \E i \in 0..(Length(nums) - 1), j \in 0..(Length(nums) - 1) :
            nums' = Swap(nums, i, j)

\* C23: during rotate(seq, k) with k >= 0 the sequence changes only by
\* exchanges of two in-bounds positions, and in every intermediate state it
\* is a permutation of the input.
RotatePermutesThroughout == []RotateIsPermutation /\ [][RotateOnlySwaps]_vars

\* rotate([1,2,3,4,5,6,7], 3) is inside its first reversal, after one swap.
RotatePermutesThroughoutWitness ==
    /\ pc = "reverse_17" /\ site = 11
    /\ cur.fn = "rotate" /\ cur.args[1] = 3
    /\ cur.swaps = 1
    /\ nums = Arr(<<7, 2, 3, 4, 5, 6, 1>>)

\* C24: for 0 <= start <= end < length, reverse(seq, start, end) called twice
\* in a row with the same range restores the sequence.
ReverseTwiceRestores ==
    \A c \in Calls("reverse"), d \in Calls("reverse") :
        (/\ d = c + 1
         /\ log[d].before = log[c].after
         /\ log[d].args = log[c].args
         /\ InBounds(log[c].before, log[c].args[1], log[c].args[2])) =>
            log[d].after = log[c].before

\* reverse([1,2,3,4,5], 0, 3) twice: [4,3,2,1,5] and back.
ReverseTwiceRestoresWitness ==
    /\ Len(log) = 2
    /\ log[1].fn = "reverse" /\ log[2].fn = "reverse"
    /\ log[1].before = Arr(<<1, 2, 3, 4, 5>>)
    /\ log[1].args = <<0, 3>> /\ log[2].args = <<0, 3>>
    /\ log[1].after = Arr(<<4, 3, 2, 1, 5>>)
    /\ log[2].before = log[1].after
    /\ log[2].after = Arr(<<1, 2, 3, 4, 5>>)

-----------------------------------------------------------------------------
(* Properties of twoSum *)

NotFound == <<-1, -1>>

\* The pairs of distinct indices of a whose elements sum to t.
Pairs(a, t) ==
    { pr \in (0..(Length(a) - 1)) \X (0..(Length(a) - 1)) :
        pr[1] # pr[2] /\ Get(a, pr[1]) + Get(a, pr[2]) = t }

\* C12: a pair other than [-1, -1] returned by twoSum(nums, target) is two
\* distinct valid indices of nums whose elements sum to target.
TwoSumPairIsValid ==
    \A c \in Calls("twoSum") :
        LET e == log[c]
        IN  e.result # NotFound => e.result \in Pairs(e.before, e.args[1])

\* twoSum([1,1,2], 2) has returned [1, 0]: equal values at different indices,
\* and not the 1 at index 0 with itself.
TwoSumPairIsValidWitness ==
    \E c \in Calls("twoSum") :
        /\ log[c].before = Arr(<<1, 1, 2>>)
        /\ log[c].args[1] = 2
        /\ log[c].result = <<1, 0>>

\* C13: twoSum returns [-1, -1] exactly when no two distinct indices sum to
\* target; whenever such a pair exists a valid pair is returned.
TwoSumFindsPairIffExists ==
    \A c \in Calls("twoSum") :
        LET e == log[c]
        IN  /\ (e.result = NotFound) <=> (Pairs(e.before, e.args[1]) = {})
            /\ Pairs(e.before, e.args[1]) # {} =>
                    e.result \in Pairs(e.before, e.args[1])

\* twoSum([2,0,2], 4) has returned [2, 0], a pair of equal values.
TwoSumFindsPairIffExistsWitness ==
    \E c \in Calls("twoSum") :
        /\ log[c].before = Arr(<<2, 0, 2>>)
        /\ log[c].args[1] = 4
        /\ log[c].result = <<2, 0>>

\* The indices of a that complete a pair with a strictly earlier index.
Completing(a, t) ==
    { i \in 0..(Length(a) - 1) : \E j \in 0..(i - 1) : Get(a, i) + Get(a, j) = t }

Min(S) == CHOOSE x \in S : \A y \in S : x <= y

\* C27: a pair [a, b] other than [-1, -1] returned by twoSum has a > b: a is
\* the index being scanned, the smallest index that completes any pair, and b
\* is a strictly earlier index, stored in the map.
TwoSumPairOrder ==
    \A c \in Calls("twoSum") :
        LET e == log[c]
            a == e.result[1]
            b == e.result[2]
        IN  e.result # NotFound =>
                /\ a > b /\ b >= 0
                /\ Get(e.before, b) = Diff(e.args[1], Get(e.before, a))
                /\ a = Min(Completing(e.before, e.args[1]))

\* twoSum([1,2,0], 2) has returned [2, 1]: the scan went past index 1, which
\* completes no pair, and index 2 completes one with index 1.
TwoSumPairOrderWitness ==
    \E c \in Calls("twoSum") :
        /\ log[c].before = Arr(<<1, 2, 0>>)
        /\ log[c].args[1] = 2
        /\ log[c].result = <<2, 1>>

-----------------------------------------------------------------------------
(* Properties of maxSubArray *)

RECURSIVE SumRange(_, _, _)
\* a[i] + ... + a[j]
SumRange(a, i, j) == IF i > j THEN 0 ELSE Get(a, i) + SumRange(a, i + 1, j)

\* The sums of the non-empty contiguous subarrays a[i..j], 0 <= i <= j < length.
SubarraySums(a) ==
    { SumRange(a, pr[1], pr[2]) :
        pr \in { q \in (0..(Length(a) - 1)) \X (0..(Length(a) - 1)) : q[1] <= q[2] } }

\* C14: for a non-empty array maxSubArray returns the largest sum of a
\* non-empty contiguous subarray; for an array of negative elements that is
\* its largest element.
MaxSubArrayIsMaximum ==
    \A c \in Calls("maxSubArray") :
        LET e == log[c]
        IN  Length(e.before) >= 1 =>
                /\ e.result = Max(SubarraySums(e.before))
                /\ (\A v \in Elems(e.before) : v < 0) =>
                        e.result = Max(Elems(e.before))

\* maxSubArray([-2,-1,-2]) has returned -1.
MaxSubArrayIsMaximumWitness ==
    \E c \in Calls("maxSubArray") :
        /\ log[c].before = Arr(<<-2, -1, -2>>)
        /\ log[c].result = -1

-----------------------------------------------------------------------------
(* Properties of lowestCommonAncestor *)

\* The nodes of tree t whose subtree contains both pn and qn.
CommonAncestors(t, pn, qn) ==
    { a \in Nodes(t) : pn \in Nodes(a) /\ qn \in Nodes(a) }

\* C15: for a binary search tree of distinct values and two of its nodes p and
\* q, lowestCommonAncestor returns the deepest node whose subtree contains
\* both: a common ancestor that lies in the subtree of every common ancestor.
LcaIsDeepestCommonAncestor ==
    \A c \in Calls("lowestCommonAncestor") :
        LET e == log[c]
            ca == CommonAncestors(e.before, e.args[1], e.args[2])
        IN  /\ e.result \in ca
            /\ \A a \in ca : e.result \in Nodes(a)

\* In the chain 8 -> 6 -> 4 -> 2 the ancestor of the nodes 2 and 6 is the node
\* 6 itself, two levels below the root.
LcaIsDeepestCommonAncestorWitness ==
    \E c \in Calls("lowestCommonAncestor") :
        /\ Val(log[c].before) = 8
        /\ Val(log[c].args[1]) = 2
        /\ Val(log[c].args[2]) = 6
        /\ log[c].result = log[c].args[2]
        /\ log[c].result = Left(log[c].before)

\* C26: for every tree and nodes p, q, lowestCommonAncestor(root, p, q) and
\* lowestCommonAncestor(root, q, p) return the same node.
LcaIsSymmetric ==
    \A c \in Calls("lowestCommonAncestor"), d \in Calls("lowestCommonAncestor") :
        (/\ log[d].before = log[c].before
         /\ log[d].args = <<log[c].args[2], log[c].args[1]>>) =>
            log[d].result = log[c].result

\* Both orders of the leaves 2 and 6 under the root 4 have returned the root.
LcaIsSymmetricWitness ==
    /\ Len(log) = 2
    /\ Val(log[1].before) = 4
    /\ Val(log[1].args[1]) = 6 /\ Val(log[1].args[2]) = 2
    /\ log[2].args = <<log[1].args[2], log[1].args[1]>>
    /\ log[1].result = log[1].before
    /\ log[2].result = log[1].before

\* The branches of r_lca that the current step can take.
RLcaBranches ==
    { b \in 1..4 : CASE b = 1 -> ENABLED RLcaBetween
                     [] b = 2 -> ENABLED RLcaEither
                     [] b = 3 -> ENABLED RLcaLeft
                     [] b = 4 -> ENABLED RLcaRight }

RLcaOneBranch ==
    (pc = "r_lca_25" /\ frame.p <= frame.q /\ frame.root # Null) =>
        /\ ~ENABLED RLcaFallThrough
        /\ Cardinality(RLcaBranches) = 1

RLcaNullOnlyFromNull ==
    (/\ pc = "r_lca_25"
     /\ frame.p <= frame.q
     /\ pc' = "idle"
     /\ log'[Len(log')].result = Null) =>
        frame.root = Null

\* C28: in r_lca called with p <= q, on every non-null node exactly one of the
\* four conditionals fires, so the final return null is never reached and
\* r_lca returns null only on a null root, reached by descending.
RLcaFallThroughUnreachable == []RLcaOneBranch /\ [][RLcaNullOnlyFromNull]_vars

\* r_lca(root, 3, 3) in a tree with root 4 and no node 3 has returned null,
\* after descending left to the node 2 and right to its null child.
RLcaFallThroughUnreachableWitness ==
    \E c \in Calls("r_lca") :
        /\ log[c].args = <<3, 3>>
        /\ log[c].before # Null
        /\ Val(log[c].before) = 4
        /\ Left(log[c].before) # Null
        /\ log[c].result = Null

====
